---- MODULE Spec2Model ----
(***************************************************************************)
(* Model of the corpus orchestrator (Process, src/main.py) and of the      *)
(* augmentation applier (Augment, src/helpers/augumentations.py).          *)
(*                                                                         *)
(* Process is a single sequential loop; Augment is modelled as the         *)
(* activation record `frame` stepping through its statements, so that the  *)
(* order of decode, transform, image write and annotation write is part    *)
(* of the state.  The outcome of every external call (cv2.imread, the      *)
(* composed transform, cv2.imwrite, SaveAnnotations) is a nondeterministic *)
(* choice.                                                                 *)
(***************************************************************************)
EXTENDS Integers, Sequences, FiniteSets, TLC

\* ------------------------------------------------------------------ bounds
MaxFiles == 2
MaxIter == 2
MaxToggle == 1
MaxBoxes == 1

\* --------------------------------------------------------------- constants
\* Python's None where a path is expected, and where a recipe is.
None == [name |-> 0, ext |-> "None"]

NoRecipe == "None"

\* The try-wrapped single-effect recipes, in the order Process tests them.
SingleOrder ==
  << "crop", "rotate", "randrotate", "flip", "darken", "brighten", "isonoise",
     "compression", "degrade", "snow", "rain", "fog", "spatter", "blackboxing",
     "sunflare", "blur", "medianblur", "night" >>

Singles == { SingleOrder[n] : n \in 1..Len(SingleOrder) }

\* The presets, in the order of the if / elif / elif chain.
PresetOrder == << "augumentColor", "augumentShape", "augumentAll" >>

Presets == { PresetOrder[n] : n \in 1..Len(PresetOrder) }

VARIABLES
  path,               \* Process's `path` argument: "None", "" or "dir"
  arguments,          \* the parsed argparse.Namespace
  directory,          \* the entries os.listdir(path) returns
  images,             \* the list Process iterates (ids into directory)
  pc,                 \* position inside Process
  i,                  \* number of images the for loop has taken
  annotations,        \* ReadAnnotations(imagePath) of this iteration
  created_path,       \* Optional[str]
  processed_counter,
  k,                  \* position in SingleOrder of the last recipe tested
  frame,              \* Augment's activation record (kept after it ends,
                      \* until the next call or the next image)
  outDir,             \* files under <path>/generated
  sha,                \* number of names GetRandomSha1 has handed out
  log,                \* what logging.error / warning / info recorded
  applied             \* history: the recipe applications attempted, in order

vars ==
  << path, arguments, directory, images, pc, i, annotations, created_path,
     processed_counter, k, frame, outDir, sha, log, applied >>

\* ----------------------------------------------------------- input domains
\* One entry of the input directory.  A non-image entry carries no labels
\* and no pixels; an image without a label file has no boxes.
Entries ==
  { e \in [isImage : BOOLEAN, exists : BOOLEAN, boxes : 0..MaxBoxes,
           decodable : BOOLEAN] :
      /\ (~e.isImage) => (~e.exists /\ ~e.decodable)
      /\ (~e.exists) => (e.boxes = 0) }

Rank(e) ==
  (IF e.isImage THEN 4 * (MaxBoxes + 1) ELSE 0)
  + (IF e.exists THEN 2 * (MaxBoxes + 1) ELSE 0)
  + (IF e.decodable THEN MaxBoxes + 1 ELSE 0) + e.boxes

\* Directories up to MaxFiles entries, one representative per multiset
\* (random.shuffle later produces every order).
Directories ==
  UNION { { d \in [1..n -> Entries] :
              \A a \in 1..n, b \in 1..n : a < b => Rank(d[a]) <= Rank(d[b]) } :
          n \in 0..MaxFiles }

\* The single-effect toggles a command line of the model may switch on: the
\* first MaxToggle of the chain, and blackboxing, whose call differs.
Toggles == { SingleOrder[n] : n \in 1..MaxToggle } \cup { "blackboxing" }

\* Every subset of those toggles with every subset of the presets.
Enabled == { s \cup p : s \in SUBSET Toggles, p \in SUBSET Presets }

\* The parsed command line.  `invalid` names the enabled single-effect
\* recipes whose CLI parameter makes the factory (transform_*_make) raise:
\* a factory depends on nothing but its parameter, so it raises for every
\* image or for none.
Namespaces ==
  UNION { { [all |-> a, iterations |-> n, enabled |-> e, invalid |-> v] :
              a \in BOOLEAN, n \in 0..MaxIter, v \in SUBSET (e \cap Singles) } :
          e \in Enabled }

\* ReadAnnotations(imagePath): the label set of one image.
ReadAnnotations(imagePath) ==
  [exists |-> directory[imagePath].exists,
   annotations |-> directory[imagePath].boxes,
   dataformat |-> "yolo"]

NoAnnotations == [exists |-> FALSE, annotations |-> 0, dataformat |-> "yolo"]

NoFrame ==
  [apc |-> "none", imagePath |-> 0, annotations |-> NoAnnotations,
   recipe |-> NoRecipe, bboxes |-> 0, outputFilepath |-> None,
   written |-> FALSE]

Init ==
  /\ path \in {"None", "", "dir"}
  /\ arguments \in Namespaces
  /\ directory \in Directories
  /\ (path # "dir") => (directory = << >>)
  /\ images = << >>
  /\ pc = "start"
  /\ i = 0
  /\ annotations = NoAnnotations
  /\ created_path = None
  /\ processed_counter = 0
  /\ k = 0
  /\ frame = NoFrame
  /\ outDir = {}
  /\ sha = 0
  /\ log = {}
  /\ applied = << >>

\* --------------------------------------------------------------- GetImages
\* The ids of the entries IsImageFile accepts, in listing order.
RECURSIVE Filter(_, _)
Filter(d, n) ==
  IF n = 0 THEN << >>
  ELSE IF d[n].isImage THEN Append(Filter(d, n - 1), n) ELSE Filter(d, n - 1)

GetImages == Filter(directory, Len(directory))

\* random.shuffle: every reordering of the list.
Shuffles(s) ==
  { t \in [1..Len(s) -> { s[n] : n \in 1..Len(s) }] :
      \A n \in 1..Len(s) : \E m \in 1..Len(s) : t[m] = s[n] }

\* ----------------------------------------------------------------- Process
Idle == frame.apc \in {"none", "returned", "raised"}

\* Lines 57-64: the path check, then the output directory.
CheckPath ==
  /\ pc = "start"
  /\ IF path \in {"None", ""}
       THEN /\ log' = log \cup { <<"error", "path", 0>> }
            /\ pc' = "done"
       ELSE /\ log' = log
            /\ pc' = "discover"
  /\ UNCHANGED << path, arguments, directory, images, i, annotations,
                  created_path, processed_counter, k, frame, outDir, sha,
                  applied >>

\* Variant of Discover without the empty check of lines 68-70.
Discover_unchecked ==
  /\ pc = "discover"
  /\ images' \in Shuffles(GetImages)
  /\ pc' = "loop"
  /\ processed_counter' = 0
  /\ UNCHANGED << path, arguments, directory, i, annotations, created_path,
                  k, frame, outDir, sha, log, applied >>

\* Lines 66-78: discovery, the empty check, the shuffle, the counter.
Discover ==
  /\ pc = "discover"
  /\ IF Len(GetImages) = 0
       THEN /\ log' = log \cup { <<"error", "empty", 0>> }
            /\ images' = << >>
            /\ pc' = "done"
       ELSE /\ log' = log
            /\ images' \in Shuffles(GetImages)
            /\ pc' = "loop"
  /\ processed_counter' = 0
  /\ UNCHANGED << path, arguments, directory, i, annotations, created_path,
                  k, frame, outDir, sha, applied >>

\* Variant of the gate that lets every image through.
Gated_never(ann) == FALSE

\* Line 87: the gate.
Gated(ann) == (arguments.all = FALSE) /\ (ann.exists = FALSE)

\* Lines 80-91: the for statement takes the next image, reads its labels
\* and applies the gate; an exhausted list ends the run.
NextImage ==
  /\ pc = "loop"
  /\ Idle
  /\ IF i < Len(images)
       THEN /\ i' = i + 1
            /\ created_path' = None
            /\ annotations' = ReadAnnotations(images[i + 1])
            /\ k' = 0
            /\ IF Gated(annotations')
                 THEN /\ log' = log \cup { <<"warning", "gate", images[i + 1]>> }
                      /\ pc' = "loop"
                 ELSE /\ log' = log
                      /\ pc' = "chain"
       ELSE /\ pc' = "done"
            /\ UNCHANGED << i, created_path, annotations, k, log >>
  /\ frame' = NoFrame
  /\ UNCHANGED << path, arguments, directory, images, processed_counter,
                  outDir, sha, applied >>

imagePath == images[i]

\* What the handler of a try block records: `except Exception as e:
\* logging.error(...)`.
Handled(recipe) == log \cup { <<"error", recipe, imagePath>> }

\* Variant of Augment's entry that chains: it takes the boxes the previous
\* application of this iteration produced.
Augment_chained(image, ann, recipe) ==
  [apc |-> "read", imagePath |-> image,
   annotations |-> IF frame.apc = "returned" /\ frame.outputFilepath # None
                     THEN [ann EXCEPT !.annotations = frame.bboxes]
                     ELSE ann,
   recipe |-> recipe, bboxes |-> 0, outputFilepath |-> None,
   written |-> FALSE]

\* The activation record at entry of Augment(imagePath, outputPath,
\* annotations, transformations).
Augment(image, ann, recipe) ==
  [apc |-> "read", imagePath |-> image, annotations |-> ann,
   recipe |-> recipe, bboxes |-> 0, outputFilepath |-> None,
   written |-> FALSE]

\* The single-effect recipes still to be tested in this iteration.
Pending == { n \in (k + 1)..Len(SingleOrder) : SingleOrder[n] \in arguments.enabled }

NextSingle == CHOOSE n \in Pending : \A m \in Pending : n <= m

\* The call expression of a try block raises before Augment is entered: the
\* factory, evaluated first, rejects its parameter, or the call passes the
\* keyword is_bboxes_transform, which Augment does not take (blackboxing).
RaisesAtCall(recipe) ==
  recipe \in arguments.invalid \/ recipe = "blackboxing"

\* Lines 93-266: the next enabled single-effect recipe, inside its try block,
\* whose handler catches what the call expression raises.
CallSingle ==
  /\ pc = "chain"
  /\ Idle
  /\ Pending # {}
  /\ k' = NextSingle
  /\ applied' = Append(applied, <<imagePath, SingleOrder[NextSingle]>>)
  /\ \/ /\ RaisesAtCall(SingleOrder[NextSingle])
        /\ log' = Handled(SingleOrder[NextSingle])
        /\ frame' = NoFrame
     \/ /\ ~RaisesAtCall(SingleOrder[NextSingle])
        /\ frame' = Augment(imagePath, annotations, SingleOrder[NextSingle])
        /\ log' = log
  /\ UNCHANGED << path, arguments, directory, images, pc, i, annotations,
                  created_path, processed_counter, outDir, sha >>

\* Variant of the preset chain that tests the toggles in the reverse order.
SelectedPreset_reversed ==
  IF "augumentAll" \in arguments.enabled THEN "augumentAll"
  ELSE IF "augumentShape" \in arguments.enabled THEN "augumentShape"
  ELSE IF "augumentColor" \in arguments.enabled THEN "augumentColor"
  ELSE NoRecipe

\* The if / elif / elif chain of lines 268-276.
SelectedPreset ==
  IF "augumentColor" \in arguments.enabled THEN "augumentColor"
  ELSE IF "augumentShape" \in arguments.enabled THEN "augumentShape"
  ELSE IF "augumentAll" \in arguments.enabled THEN "augumentAll"
  ELSE NoRecipe

\* Lines 268-276: after the last single-effect recipe, the preset, outside
\* any try block.
CallPreset ==
  /\ pc = "chain"
  /\ Idle
  /\ Pending = {}
  /\ pc' = "count"
  /\ IF SelectedPreset # NoRecipe
       THEN /\ frame' = Augment(imagePath, annotations, SelectedPreset)
            /\ applied' = Append(applied, <<imagePath, SelectedPreset>>)
       ELSE UNCHANGED << frame, applied >>
  /\ UNCHANGED << path, arguments, directory, images, i, annotations,
                  created_path, processed_counter, k, outDir, sha, log >>

\* Variant of Count whose budget test is strict (> for >=).
Count_strict ==
  /\ pc = "count"
  /\ Idle
  /\ IF created_path = None
       THEN /\ pc' = "loop"
            /\ UNCHANGED << processed_counter, log >>
       ELSE /\ log' = log \cup { <<"info", "created", images[i]>> }
            /\ processed_counter' = processed_counter + 1
            /\ pc' = IF processed_counter' > arguments.iterations
                       THEN "done" ELSE "loop"
  /\ UNCHANGED << path, arguments, directory, images, i, annotations,
                  created_path, k, frame, outDir, sha, applied >>

\* Lines 278-290: the counter and the budget.
Count ==
  /\ pc = "count"
  /\ Idle
  /\ IF created_path = None
       THEN /\ pc' = "loop"
            /\ UNCHANGED << processed_counter, log >>
       ELSE /\ log' = log \cup { <<"info", "created", imagePath>> }
            /\ processed_counter' = processed_counter + 1
            /\ pc' = IF processed_counter' >= arguments.iterations
                       THEN "done" ELSE "loop"
  /\ UNCHANGED << path, arguments, directory, images, i, annotations,
                  created_path, k, frame, outDir, sha, applied >>

\* ----------------------------------------------------------------- Augment
\* `return v` into `created_path = Augment(...)`.
Return(v) ==
  /\ created_path' = v
  /\ pc' = pc

\* An exception leaving Augment: the handler of a single-effect recipe logs
\* it and Process goes on; a preset's call has no handler.
Raise ==
  /\ created_path' = created_path
  /\ IF frame.recipe \in Singles
       THEN /\ log' = Handled(frame.recipe)
            /\ pc' = pc
       ELSE /\ log' = log
            /\ pc' = "raised"

\* Lines 244-248: cv2.imread.
AugRead ==
  /\ frame.apc = "read"
  /\ IF directory[frame.imagePath].decodable
       THEN /\ frame' = [frame EXCEPT !.apc = "transform"]
            /\ UNCHANGED << created_path, pc, log >>
       ELSE /\ frame' = [frame EXCEPT !.apc = "returned"]
            /\ log' = log \cup { <<"error", "imread", frame.imagePath>> }
            /\ Return(None)
  /\ UNCHANGED << path, arguments, directory, images, i, annotations,
                  processed_counter, k, outDir, sha, applied >>

\* Variant of AugTransform that has already put an image file in place when
\* the transform raises.
AugTransform_partial ==
  /\ frame.apc = "transform"
  /\ \/ /\ frame' = [frame EXCEPT !.apc = "raised"]
        /\ outDir' = outDir \cup { [file |-> [name |-> sha + 1, ext |-> "jpeg"],
                                    src |-> frame.imagePath,
                                    recipe |-> frame.recipe,
                                    boxes |-> 0] }
        /\ created_path' = created_path
        /\ IF frame.recipe \in Singles
             THEN /\ log' = log \cup { <<"error", frame.recipe, frame.imagePath>> }
                  /\ pc' = pc
             ELSE /\ log' = log
                  /\ pc' = "raised"
     \/ /\ \E b \in 0..frame.annotations.annotations :
             frame' = [frame EXCEPT !.apc = "imwrite", !.bboxes = b]
        /\ UNCHANGED << created_path, pc, log, outDir >>
  /\ UNCHANGED << path, arguments, directory, images, i, annotations,
                  processed_counter, k, sha, applied >>

\* Lines 250-256: the transform either raises or yields the boxes that
\* survive it, which go into a new Annotations object.
AugTransform ==
  /\ frame.apc = "transform"
  /\ \/ /\ frame' = [frame EXCEPT !.apc = "raised"]
        /\ Raise
     \/ /\ \E b \in 0..frame.annotations.annotations :
             frame' = [frame EXCEPT !.apc = "imwrite", !.bboxes = b]
        /\ UNCHANGED << created_path, pc, log >>
  /\ UNCHANGED << path, arguments, directory, images, i, annotations,
                  processed_counter, k, outDir, sha, applied >>

ChangeExtension(file, ext) == [file EXCEPT !.ext = ext]

\* Lines 258-262: a fresh name, then cv2.imwrite, whose result (False when
\* the file could not be written) is not looked at.
AugImwrite ==
  /\ frame.apc = "imwrite"
  /\ sha' = sha + 1
  /\ \E ok \in BOOLEAN :
       /\ frame' = [frame EXCEPT !.apc = "save", !.written = ok,
                                 !.outputFilepath = [name |-> sha', ext |-> "jpeg"]]
       /\ outDir' = IF ok
                      THEN outDir \cup { [file |-> [name |-> sha', ext |-> "jpeg"],
                                          src |-> frame.imagePath,
                                          recipe |-> frame.recipe,
                                          boxes |-> 0] }
                      ELSE outDir
  /\ UNCHANGED << path, arguments, directory, images, pc, i, annotations,
                  created_path, processed_counter, k, log, applied >>

\* SaveAnnotations(path, annotations): the label file of the new boxes.
SaveAnnotations(file, bboxes) ==
  [file |-> file, src |-> frame.imagePath, recipe |-> frame.recipe,
   boxes |-> bboxes]

\* Variant of the end of Augment that writes the label file whether or not
\* the source has one.
AugSave_always ==
  /\ frame.apc = "save"
  /\ outDir' = outDir \cup
       { [file |-> [frame.outputFilepath EXCEPT !.ext = "txt"],
          src |-> frame.imagePath, recipe |-> frame.recipe,
          boxes |-> frame.bboxes] }
  /\ frame' = [frame EXCEPT !.apc = "returned"]
  /\ created_path' = frame.outputFilepath
  /\ UNCHANGED << path, arguments, directory, images, pc, i, annotations,
                  processed_counter, k, sha, log, applied >>

\* Lines 263-267: the label file, only for a labelled source, then the
\* return of the output path.  Writing the label file may raise.
AugSave ==
  /\ frame.apc = "save"
  /\ \/ /\ frame.annotations.exists
        /\ outDir' = outDir \cup
             { SaveAnnotations(ChangeExtension(frame.outputFilepath, "txt"),
                               frame.bboxes) }
        /\ frame' = [frame EXCEPT !.apc = "returned"]
        /\ Return(frame.outputFilepath)
        /\ log' = log
     \/ /\ ~frame.annotations.exists
        /\ outDir' = outDir
        /\ frame' = [frame EXCEPT !.apc = "returned"]
        /\ Return(frame.outputFilepath)
        /\ log' = log
     \/ /\ frame.annotations.exists
        /\ outDir' = outDir
        /\ frame' = [frame EXCEPT !.apc = "raised"]
        /\ Raise
  /\ UNCHANGED << path, arguments, directory, images, i, annotations,
                  processed_counter, k, sha, applied >>

Next ==
  \/ CheckPath
  \/ Discover
  \/ NextImage
  \/ CallSingle
  \/ CallPreset
  \/ Count
  \/ AugRead
  \/ AugTransform
  \/ AugImwrite
  \/ AugSave

Spec == Init /\ [][Next]_vars

\* ------------------------------------------------------------- observables
\* The image files persisted under the output directory.
Artifacts == { f \in outDir : f.file.ext = "jpeg" }

LabelFiles == { f \in outDir : f.file.ext = "txt" }

\* Every cv2.imwrite so far wrote its file.
WritesSucceeded == sha = Cardinality(Artifacts)

\* Nothing failed so far: no error and no warning was logged and every
\* image write succeeded.
NothingFailed == WritesSucceeded /\ \A e \in log : e[1] = "info"

\* The iteration of the image taken last has run to its end.
IterationComplete == pc \in {"loop", "done"} /\ Idle

\* The recipe applications attempted on one image, in order.
AppliedTo(image) == SelectSeq(applied, LAMBDA e : e[1] = image)

Recipes(image) ==
  [n \in 1..Len(AppliedTo(image)) |-> AppliedTo(image)[n][2]]

EnabledSingles == SelectSeq(SingleOrder, LAMBDA r : r \in arguments.enabled)

EnabledPresets == SelectSeq(PresetOrder, LAMBDA r : r \in arguments.enabled)

FirstEnabledPreset ==
  IF EnabledPresets = << >> THEN << >> ELSE << EnabledPresets[1] >>

\* The images whose gate and recipes are behind the loop.
Finished == { n \in 1..i : n < i \/ pc \in {"loop", "count", "done"} }

\* ------------------------------------------------------------------ claims

\* C1: after each image's iteration the counter equals the number of image
\* files persisted so far (stated for the runs in which nothing failed).
C1_CounterEqualsArtifacts ==
  (IterationComplete /\ NothingFailed)
    => processed_counter = Cardinality(Artifacts)

\* C2: no image is being processed once the counter has reached the budget,
\* and the loop is left only with the budget reached or the corpus exhausted.
C2_StopsAtBudgetOrExhaustion ==
  /\ (pc \in {"chain", "count"}) => processed_counter < arguments.iterations
  /\ (pc \in {"done", "raised"} /\ Len(images) > 0)
       => (processed_counter >= arguments.iterations \/ i = Len(images))
  /\ (pc = "raised") => FALSE

\* C3: a corpus of N eligible, decodable images, a budget B in 1..N and one
\* enabled recipe that never fails: the run ends with exactly B artifacts
\* after visiting at most B images.
C3_Given ==
  /\ pc = "done"
  /\ Cardinality(arguments.enabled) = 1
  /\ arguments.iterations \in 1..Len(images)
  /\ \A n \in 1..Len(images) :
       /\ directory[images[n]].decodable
       /\ arguments.all \/ directory[images[n]].exists
  /\ NothingFailed

C3_BudgetTermination ==
  C3_Given => (Cardinality(Artifacts) = arguments.iterations
               /\ i <= arguments.iterations)

C3_Witness ==
  /\ C3_Given
  /\ Len(images) = 2
  /\ arguments.iterations = 1
  /\ Cardinality(Artifacts) = 1
  /\ i = 1

\* C4: a failing recipe application, preset or not, is caught and logged at
\* that application and never leaves Process.
C4_FailureIsolated ==
  /\ pc # "raised"
  /\ (frame.apc = "raised")
       => <<"error", frame.recipe, frame.imagePath>> \in log

C6_GateSkipsUnlabelled ==
  \A n \in 1..i :
    LET image == images[n] IN
      /\ (arguments.all = FALSE /\ ~directory[image].exists)
           => /\ AppliedTo(image) = << >>
              /\ \A f \in outDir : f.src # image
              /\ <<"info", "created", image>> \notin log
              /\ frame.imagePath # image
              /\ (n = i) => pc \in {"loop", "done"}
      /\ (arguments.all /\ ~directory[image].exists /\ n \in Finished
            /\ arguments.enabled # {})
           => /\ AppliedTo(image) # << >>
              /\ <<"warning", "gate", image>> \notin log

C6_Witness ==
  /\ i = 2
  /\ arguments.all = FALSE
  /\ ~directory[images[1]].exists
  /\ directory[images[2]].exists
  /\ AppliedTo(images[2]) # << >>
  /\ pc = "done"
  /\ processed_counter = 1

\* C7: every recipe application of an iteration is handed the image path
\* of that iteration and the label set read at its start, whatever earlier
\* applications did, and that label set stays as read.
C7_NoChaining ==
  /\ (frame.apc # "none")
       => /\ frame.imagePath = images[i]
          /\ frame.annotations = ReadAnnotations(images[i])
  /\ (pc \in {"chain", "count"}) => annotations = ReadAnnotations(images[i])

\* A second application in an iteration whose first one wrote a label file
\* with fewer boxes than the source has.
C7_Witness ==
  /\ frame.apc = "transform"
  /\ Len(AppliedTo(frame.imagePath)) = 2
  /\ \E f \in LabelFiles :
       /\ f.src = frame.imagePath
       /\ f.boxes < frame.annotations.annotations

OfCall(f) == f.src = frame.imagePath /\ f.recipe = frame.recipe

C9_NoPartialArtifacts ==
  /\ (frame.apc \in {"read", "transform", "imwrite"})
       => \A f \in outDir : ~OfCall(f)
  /\ (frame.apc \in {"returned", "raised"} /\ frame.outputFilepath = None)
       => /\ \A f \in outDir : ~OfCall(f)
          /\ (frame.apc = "returned") => created_path = None
  /\ \A f \in outDir : directory[f.src].decodable

C9_Witness ==
  /\ frame.apc = "raised"
  /\ frame.outputFilepath = None
  /\ outDir # {}
  /\ \A f \in outDir : ~OfCall(f)

\* C10: a None or empty path, or a directory without image files, ends the
\* run at once: reported, nothing visited, nothing written, nothing raised.
C10_InputErrorsAbort ==
  /\ (pc # "start" /\ path \in {"None", ""})
       => /\ pc = "done"
          /\ <<"error", "path", 0>> \in log
          /\ i = 0 /\ applied = << >> /\ outDir = {} /\ frame = NoFrame
  /\ (pc \notin {"start", "discover"} /\ path = "dir" /\ GetImages = << >>)
       => /\ pc = "done"
          /\ <<"error", "empty", 0>> \in log
          /\ i = 0 /\ applied = << >> /\ outDir = {} /\ frame = NoFrame

C10_Witness ==
  /\ pc = "done"
  /\ path = "dir"
  /\ Len(directory) = 2
  /\ GetImages = << >>
  /\ <<"error", "empty", 0>> \in log

\* A recipe factory has rejected its parameter in this run.
ConfigurationErrorRaised ==
  \E n \in 1..Len(applied) : applied[n][2] \in arguments.invalid

\* C11: a configuration error raised while a configured recipe is built is
\* fatal where it is raised: the run has stopped with it, nothing else was
\* applied and the output directory is empty.
C11_ConfigurationErrorFatal ==
  ConfigurationErrorRaised
    => /\ pc = "raised"
       /\ Len(applied) = 1
       /\ outDir = {}

\* C12: after a run, whatever failed in it, every image file made from a
\* labelled source has a label file of the same name next to it (stated
\* for the runs Process returns from).
C12_LabelledImageHasLabels ==
  (pc = "done")
    => \A f \in Artifacts :
         directory[f.src].exists
           => \E g \in LabelFiles : g.file = ChangeExtension(f.file, "txt")

====
